---- MODULE Spec2Model ----
(***************************************************************************)
(* Model of the link checker in src/src/services/linkChecker.ts:           *)
(* checkLinks (the page queue / crawl loop), extractLinks,                 *)
(* checkLinksInBatches and checkSingleLink; and of the server handler of   *)
(* src/unnamed/part_004, which has a specification of its own.             *)
(*                                                                         *)
(* JavaScript runs one task at a time.  The code between two awaits is     *)
(* atomic with respect to the outside world, so the cancel signal can be   *)
(* aborted only while checkLinks is suspended at an await, while it is     *)
(* inside a caller-supplied callback (onProgress, onPageChecked), or       *)
(* before it is called.  pc names these positions; the positions "loop"    *)
(* and "proxy" are synchronous loop heads at which nothing but the         *)
(* program's own next step is enabled.                                     *)
(***************************************************************************)
EXTENDS Integers, Sequences, FiniteSets, TLC

VARIABLES
    \* inputs of checkLinks, and the site served by the network
    url, recursive, maxDepth, site,
    \* control
    pc, aborted, outcome,
    \* locals of checkLinks that live across pages
    allResults, visitedPages, pageQueue, checkedPagesCount, proxyUsed,
    \* locals of one iteration of the page loop
    currentUrl, currentDepth, proxyIdx, error,
    \* locals of checkLinksInBatches and the checkSingleLink calls of a window
    linksToCheck, i, results, slots, settleOrder,
    \* history: pages processed in order, queue pushes, the depth at which
    \* each page was processed, pages whose body was obtained
    visitOrder, enqLog, visitDepths, fetched,
    \* history: the proxy attempts of the current page and how each ended
    attempts,
    \* the server handler: the url parameter of its request, its position,
    \* its locals, what failed, and its response
    reqUrl, hpc, hlinks, hi, hresults, hslots, failure, response,
    \* the Index page: the results it holds and the rows of its CSV export
    uiResults, csvRows,
    \* the Index page: its state and its ref, and the calls of checkLinks it
    \* has made, each with its controller
    isChecking, hasChecked, uiError, abortControllerRef, checks,
    \* the client of the server endpoint: the reply of the network to its
    \* request, and its call
    apiReply, apiCall

inputVars == <<url, recursive, maxDepth, site>>
ctlVars   == <<pc, aborted, outcome>>
crawlVars == <<allResults, visitedPages, pageQueue, checkedPagesCount, proxyUsed>>
pageVars  == <<currentUrl, currentDepth, proxyIdx, error>>
batchVars == <<linksToCheck, i, results, slots, settleOrder>>
histVars  == <<visitOrder, enqLog, visitDepths, fetched, attempts>>
srvVars   == <<reqUrl, hpc, hlinks, hi, hresults, hslots, failure, response>>
clientVars == <<ctlVars, crawlVars, pageVars, batchVars, histVars>>
uiVars    == <<uiResults, csvRows>>
appVars   == <<isChecking, hasChecked, uiError, abortControllerRef, checks>>
apiVars   == <<apiReply, apiCall>>
vars == <<inputVars, ctlVars, crawlVars, pageVars, batchVars, histVars, srvVars, uiVars,
          appVars, apiVars>>

----------------------------------------------------------------------------
(* Bounds and program constants *)

MaxDepthBound == 2
MaxDocLen == 27
MaxErrLen == 3
MaxChecks == 3
MaxPayloads == 1

batchSize == 3
handlerBatchSize == 5
SinglePageCap == 25

corsProxies == << "https://api.allorigins.win/raw?url=",
                  "https://corsproxy.io/?",
                  "https://cors-anywhere.herokuapp.com/" >>

----------------------------------------------------------------------------
(* URLs.  A URL string is modelled by its parsed parts; a string that      *)
(* `new URL` rejects has no scheme.                                        *)

MkUrl(host, path, ext, query) ==
    [scheme |-> "https", host |-> host, path |-> path, ext |-> ext, query |-> query]

S == MkUrl("site.test", "/", "", "")
A == MkUrl("site.test", "/about", "", "")
B == MkUrl("site.test", "/b", "", "")
P == MkUrl("site.test", "/file", "pdf", "")
Q == MkUrl("site.test", "/logo", "png", "")
X == MkUrl("other.test", "/", "", "")
Y == MkUrl("third.test", "/", "", "")
BadUrl == [scheme |-> "", host |-> "", path |-> "not a url", ext |-> "", query |-> ""]
NoUrl == [scheme |-> "", host |-> "", path |-> "", ext |-> "", query |-> ""]

\* a document with a version in its query, a page whose query names a
\* document, and a document whose extension is written in capitals
PV == MkUrl("site.test", "/file", "pdf", "v=1")
AQ == MkUrl("site.test", "/about", "", "f=a.pdf")
PU == MkUrl("site.test", "/scan", "PDF", "")

Urls == {S, A, B, P, Q, X, Y, PV, AQ, PU}

JsUrl == [scheme |-> "javascript", host |-> "", path |-> "void(0)", ext |-> "",
          query |-> ""]

Parses(u) == u.scheme \in {"http", "https", "javascript"}
Hostname(u) == u.host

ExcludedExts == {"jpg", "jpeg", "png", "gif", "svg", "webp", "ico", "pdf", "zip",
                 "rar", "mp3", "mp4", "webm", "avi", "mov", "wmv", "flv", "doc",
                 "docx", "xls", "xlsx", "ppt", "pptx", "txt", "csv", "json",
                 "xml", "rss"}

\* the extension a query string ends in, "" when it ends in none
QueryExt(q) == IF q = "f=a.pdf" THEN "pdf" ELSE ""

\* the extension at the end of the URL string: the string ends with the
\* path only when there is no query
TrailingExt(u) == IF u.query = "" THEN u.ext ELSE QueryExt(u.query)

\* the flag i of the regular expression
Lower(e) == IF e = "PDF" THEN "pdf" ELSE e

\* result.url.match(/\.(jpg|...|rss)$/i): the whole URL string ends in
\* ".<ext>", in any letter case.
MatchesExcludedExt(u) == Lower(TrailingExt(u)) \in ExcludedExts

----------------------------------------------------------------------------
(* Pages.  A document is the sequence of href attributes of its anchors.   *)
(* An attribute has its text as written, of which prefix is the part up to *)
(* the first delimiter, and kind and target say what the URL parser makes  *)
(* of the text: the parser drops leading and trailing whitespace and reads *)
(* a scheme in any letter case.                                            *)

Abs(u)  == [kind |-> "abs", prefix |-> "https:", target |-> u]
Rel(u)  == [kind |-> "rel", prefix |-> "/", target |-> u]
Frag    == [kind |-> "frag", prefix |-> "#", target |-> NoUrl]
Js      == [kind |-> "js", prefix |-> "javascript:", target |-> JsUrl]
JsUpper == [kind |-> "js", prefix |-> "JavaScript:", target |-> JsUrl]
JsSpace == [kind |-> "js", prefix |-> " javascript:", target |-> JsUrl]
Empty   == [kind |-> "empty", prefix |-> "", target |-> NoUrl]
Bad     == [kind |-> "bad", prefix |-> "http:", target |-> NoUrl]
\* a relative reference that starts with a path segment, as href="about"
RelPlain(u) == [kind |-> "rel", prefix |-> "about", target |-> u]

NoLinks == [u \in Urls |-> << >>]

Site1 == [NoLinks EXCEPT ![S] = <<Rel(A), Abs(X)>>]
Site2 == [NoLinks EXCEPT ![S] = <<Abs(A), Abs(B)>>,
                         ![A] = <<Abs(B), Abs(X)>>,
                         ![B] = <<Abs(S)>>]
Site3 == [NoLinks EXCEPT ![S] = <<Frag, Abs(X), Js, Abs(X), Abs(P), Empty, Bad,
                                  Abs(Y), Rel(Q)>>]
Site4 == [NoLinks EXCEPT ![S] = <<Abs(PV), Abs(AQ), Abs(PU)>>]
Sites == {Site1, Site2, Site3, Site4}

\* new URL(href, baseUrl): an absolute href replaces the base, a relative
\* one keeps the base's scheme and host.
Resolve(h, base) ==
    IF h.kind \in {"abs", "js"} THEN h.target
    ELSE [h.target EXCEPT !.scheme = base.scheme, !.host = base.host]

\* line 223: href && !href.startsWith('javascript:') && !href.startsWith('#')
KeepHref(h) == h.prefix # "" /\ h.prefix # "javascript:" /\ h.prefix # "#"

extractLinks(hrefs, baseUrl) ==
    LET kept == SelectSeq(hrefs, LAMBDA h : KeepHref(h) /\ h.kind # "bad")
    IN  [k \in 1..Len(kept) |-> Resolve(kept[k], baseUrl)]

\* line 241: /href=["']((?:(?:https?|ftp):\/\/|\/)[^"'\s>]+)["']/gi, of
\* which the text of the attribute must start with a scheme of the three
\* or with a slash
MatchesHrefRegex(h) == h.prefix \in {"https:", "http:", "ftp:", "/"}

\* lines 238-257: the extraction when DOMParser is not available
extractLinksFallback(hrefs, baseUrl) ==
    LET kept == SelectSeq(hrefs, LAMBDA h : MatchesHrefRegex(h) /\ KeepHref(h)
                                             /\ h.kind # "bad")
    IN  [k \in 1..Len(kept) |-> Resolve(kept[k], baseUrl)]

RECURSIVE Unique(_)
Unique(s) ==
    IF s = << >> THEN << >>
    ELSE LET front == Unique(SubSeq(s, 1, Len(s) - 1))
             last  == s[Len(s)]
         IN  IF \E k \in 1..Len(front) : front[k] = last
             THEN front ELSE Append(front, last)

Min(a, b) == IF a < b THEN a ELSE b

\* all unique links in both modes
LinksToCheckNoCap(hrefs, baseUrl, rec) == Unique(extractLinks(hrefs, baseUrl))

LinksToCheck(hrefs, baseUrl, rec) ==
    LET uniqueLinks == Unique(extractLinks(hrefs, baseUrl))
    IN  IF rec THEN uniqueLinks
        ELSE SubSeq(uniqueLinks, 1, Min(SinglePageCap, Len(uniqueLinks)))

\* Documents for the extraction alone: n anchors that cycle over m numbered
\* pages, or n anchors that name each numbered page twice in a row, after
\* some anchors of the other kinds.
Numbered(k) == MkUrl("site.test", "/page", "", ToString(k))
Cyclic(n, m) == [j \in 1..n |-> Abs(Numbered(((j - 1) % m) + 1))]
Paired(n) == [j \in 1..n |-> Abs(Numbered((j \div 2) + 1))]
Leads == { << >>,
           <<Frag, Js, Empty, Bad, Rel(A), Abs(A)>>,
           <<Abs(X), JsUpper, Abs(X)>>,
           <<JsSpace, Rel(Q)>>,
           <<Abs(X), RelPlain(A), Rel(B)>> }
Docs == {lead \o Cyclic(n, m) : lead \in Leads, n \in 0..MaxDocLen, m \in 1..MaxDocLen}
            \cup {lead \o Paired(n) : lead \in Leads, n \in 0..MaxDocLen}
DocSites == {[NoLinks EXCEPT ![S] = d] : d \in Docs}

----------------------------------------------------------------------------
(* HTTP.  A response carries a status; fetch rejects with a DOMException   *)
(* named AbortError when its controller is aborted (the per-attempt timer  *)
(* or the cancel signal) and with a TypeError on a network failure.        *)

Statuses == {200, 404}
Ok(status) == status >= 200 /\ status <= 299
StatusLine(status) ==
    CASE status = 200 -> "200 OK"
      [] status = 404 -> "404 Not Found"
      [] OTHER -> "unknown"

TimeoutErr == [isError |-> TRUE, name |-> "AbortError",
               message |-> "signal is aborted without reason"]
NetworkErr == [isError |-> TRUE, name |-> "TypeError", message |-> "Failed to fetch"]
CancelErr  == [isError |-> TRUE, name |-> "AbortError",
               message |-> "signal is aborted without reason"]
Throwables == {TimeoutErr, NetworkErr}

----------------------------------------------------------------------------
(* checkSingleLink.  A slot is one call of a window: stage is its position *)
(* (HEAD in flight, GET in flight, returned, rejected), head and get       *)
(* record what each attempt did.                                           *)

\* a result whose error is filled in for every response
FromResponseWithError(link, status, sourcePage) ==
    [url |-> link, isWorking |-> Ok(status), statusCode |-> <<status>>,
     error |-> <<StatusLine(status)>>, sourcePage |-> sourcePage]

\* a result that names the link itself as its source page
FromResponseSelfSource(link, status, sourcePage) ==
    [url |-> link, isWorking |-> Ok(status), statusCode |-> <<status>>,
     error |-> IF Ok(status) THEN << >> ELSE <<StatusLine(status)>>,
     sourcePage |-> <<link>>]

FromResponse(link, status, sourcePage) ==
    [url |-> link, isWorking |-> Ok(status), statusCode |-> <<status>>,
     error |-> IF Ok(status) THEN << >> ELSE <<StatusLine(status)>>,
     sourcePage |-> sourcePage]

\* a message that does not tell a timeout apart
ErrorMessageRaw(err) == IF err.isError THEN err.message ELSE "Connection failed"

ErrorMessage(err) ==
    IF err.isError
    THEN IF err.name = "AbortError" THEN "Request timeout" ELSE err.message
    ELSE "Connection failed"

\* an outer catch without the test of the signal
OuterCatchNoTest(slot, err, ab, sourcePage) ==
    [slot EXCEPT !.stage = "done",
                 !.result = <<[url |-> slot.url, isWorking |-> FALSE,
                               statusCode |-> << >>,
                               error |-> <<ErrorMessage(err)>>,
                               sourcePage |-> sourcePage]>>]

\* lines 398-417: the outer catch of checkSingleLink
OuterCatch(slot, err, ab, sourcePage) ==
    IF ab THEN [slot EXCEPT !.stage = "rejected"]
    ELSE [slot EXCEPT !.stage = "done",
                      !.result = <<[url |-> slot.url, isWorking |-> FALSE,
                                    statusCode |-> << >>,
                                    error |-> <<ErrorMessage(err)>>,
                                    sourcePage |-> sourcePage]>>]

\* lines 313-346: up to the HEAD request
StartCheck(link, ab, sourcePage, proxy) ==
    LET slot == [url |-> link, proxy |-> proxy, stage |-> "start", head |-> "none",
                 get |-> "none", result |-> << >>]
    IN  IF ab THEN OuterCatch(slot, CancelErr, ab, sourcePage)
        ELSE IF ~Parses(link) THEN OuterCatch(slot, NetworkErr, ab, sourcePage)
        ELSE [slot EXCEPT !.stage = "head", !.head = "pending"]

\* lines 348-356 and 383-391: an attempt completed with a response
OnHeadResponse(slot, status, sourcePage) ==
    [slot EXCEPT !.stage = "done", !.head = "response",
                 !.result = <<FromResponse(slot.url, status, sourcePage)>>]

OnGetResponse(slot, status, sourcePage) ==
    [slot EXCEPT !.stage = "done", !.get = "response",
                 !.result = <<FromResponse(slot.url, status, sourcePage)>>]

\* a HEAD catch without the test of the signal
OnHeadThrowNoTest(slot, err, ab, sourcePage) ==
    [slot EXCEPT !.stage = "get", !.head = "threw", !.get = "pending"]

\* lines 357-381: HEAD threw; GET is issued unless the signal is aborted
OnHeadThrow(slot, err, ab, sourcePage) ==
    IF ab THEN OuterCatch([slot EXCEPT !.head = "threw"], CancelErr, ab, sourcePage)
    ELSE [slot EXCEPT !.stage = "get", !.head = "threw", !.get = "pending"]

\* lines 392-396: GET threw
OnGetThrow(slot, err, ab, sourcePage) ==
    IF ab THEN OuterCatch([slot EXCEPT !.get = err.name], CancelErr, ab, sourcePage)
    ELSE OuterCatch([slot EXCEPT !.get = err.name], err, ab, sourcePage)

----------------------------------------------------------------------------
(* checkLinksInBatches *)

\* a window one link longer than the step of the loop
StartWindowOverlap(links, base, ab, sourcePage, proxy) ==
    [k \in 1..Min(batchSize + 1, Len(links) - base) |->
        StartCheck(links[base + k], ab, sourcePage, proxy)]

\* line 282-283: the window starting at offset base
StartWindow(links, base, ab, sourcePage, proxy) ==
    [k \in 1..Min(batchSize, Len(links) - base) |->
        StartCheck(links[base + k], ab, sourcePage, proxy)]

\* results collected as the calls return
WindowResultsAsSettled(sl, order) == [k \in 1..Len(sl) |-> sl[order[k]].result[1]]

\* line 284: Promise.all yields the results by position
WindowResults(sl, order) == [k \in 1..Len(sl) |-> sl[k].result[1]]

AllDone(sl) == \A k \in 1..Len(sl) : sl[k].stage = "done"
AnyRejected(sl) == \E k \in 1..Len(sl) : sl[k].stage = "rejected"

----------------------------------------------------------------------------
(* checkLinks *)

baseDomain == Hostname(url)

\* a crawl loop that never skips
NeverVisited(u) == FALSE

\* line 42
AlreadyVisited(u) == u \in visitedPages

\* a filter without the hostname test
ShouldEnqueueAnyHost(r) ==
    /\ r.isWorking
    /\ Parses(r.url)
    /\ ~MatchesExcludedExt(r.url)

\* lines 145-156: the filter for new pages
ShouldEnqueue(r) ==
    /\ r.isWorking
    /\ Parses(r.url)
    /\ Hostname(r.url) = baseDomain
    /\ ~MatchesExcludedExt(r.url)

\* lines 143-160
NewPages(res, depth) ==
    LET kept == SelectSeq(res, ShouldEnqueue)
    IN  [k \in 1..Len(kept) |-> [url |-> kept[k].url, depth |-> depth + 1]]

\* a test that follows links in single-page mode too
MayEnqueueAnyMode(rec, depth, limit, ab) == depth < limit /\ ~ab

\* the depth test with <= for <
MayEnqueueInclusive(rec, depth, limit, ab) == rec /\ depth <= limit /\ ~ab

\* the guard of line 143 without the depth test
MayEnqueueNoLimit(rec, depth, limit, ab) == rec /\ ~ab

MayEnqueue(rec, depth, limit, ab) == rec /\ depth < limit /\ ~ab

\* new pages put at the front of the queue
PushFront(queue, newPages) == newPages \o queue

\* line 162: pageQueue.push(...newPages); line 40 takes from the front
Push(queue, newPages) == queue \o newPages

\* lines 17-36: the locals of checkLinks before the call
Start ==
    /\ pc = "idle"
    /\ aborted = FALSE
    /\ outcome = "pending"
    /\ allResults = << >>
    /\ visitedPages = {}
    /\ pageQueue = << >>
    /\ checkedPagesCount = 0
    /\ proxyUsed = ""
    /\ currentUrl = NoUrl
    /\ currentDepth = 0
    /\ proxyIdx = 0
    /\ error = "null"
    /\ linksToCheck = << >>
    /\ i = 0
    /\ results = << >>
    /\ slots = << >>
    /\ settleOrder = << >>
    /\ visitOrder = << >>
    /\ enqLog = {}
    /\ visitDepths = << >>
    /\ fetched = {}
    /\ attempts = << >>

\* the handler before a request
HandlerIdle ==
    /\ hpc = "idle"
    /\ hlinks = << >>
    /\ hi = 0
    /\ hresults = << >>
    /\ hslots = << >>
    /\ failure = "none"
    /\ response = << >>

\* Index.tsx lines 14-22: the state of the page and its ref before a check
AppIdle ==
    /\ isChecking = FALSE
    /\ hasChecked = FALSE
    /\ uiError = "null"
    /\ abortControllerRef = 0
    /\ checks = << >>

\* part_002: the client before its call
ApiUndefined == [type |-> "undefined", items |-> << >>]
ApiIdle ==
    /\ apiReply = [kind |-> "none", status |-> 0,
                   body |-> [type |-> "text", results |-> ApiUndefined]]
    /\ apiCall = [pc |-> "idle", value |-> ApiUndefined, err |-> "none"]

\* Index.tsx line 15: the page before a check
PageIdle ==
    /\ uiResults = << >>
    /\ csvRows = << >>
    /\ AppIdle
    /\ ApiIdle

Init ==
    /\ url \in {S, BadUrl}
    /\ recursive \in BOOLEAN
    /\ maxDepth \in 0..MaxDepthBound
    /\ site \in Sites
    /\ Start
    /\ reqUrl = << >>
    /\ HandlerIdle
    /\ PageIdle

ResetPage ==
    /\ currentUrl' = NoUrl
    /\ currentDepth' = 0
    /\ proxyIdx' = 0
    /\ error' = "null"

ResetBatch ==
    /\ linksToCheck' = << >>
    /\ i' = 0
    /\ results' = << >>
    /\ slots' = << >>
    /\ settleOrder' = << >>

\* the call without the parse of line 26
CallNoParse ==
    /\ pc = "idle"
    /\ pc' = "loop"
    /\ pageQueue' = <<[url |-> url, depth |-> 0]>>
    /\ UNCHANGED <<apiVars, appVars, uiVars, srvVars, inputVars, aborted, outcome, allResults, visitedPages,
                   checkedPagesCount, proxyUsed, pageVars, batchVars, histVars>>

\* lines 13-27: the call, up to the first test of the loop condition
Call ==
    /\ pc = "idle"
    /\ IF Parses(url)
       THEN /\ pc' = "loop"
            /\ outcome' = outcome
            /\ pageQueue' = <<[url |-> url, depth |-> 0]>>
       ELSE /\ pc' = "rejected"
            /\ outcome' = "TypeError"
            /\ pageQueue' = pageQueue
    /\ UNCHANGED <<apiVars, appVars, uiVars, srvVars, inputVars, aborted, allResults, visitedPages, checkedPagesCount,
                   proxyUsed, pageVars, batchVars, histVars>>

\* a skip that leaves the entry at the front of the queue
SkipVisitedKeep ==
    /\ pc = "loop"
    /\ pageQueue # << >>
    /\ ~aborted
    /\ AlreadyVisited(Head(pageQueue).url)
    /\ pageQueue' = pageQueue
    /\ UNCHANGED <<apiVars, appVars, uiVars, srvVars, inputVars, ctlVars, allResults, visitedPages, checkedPagesCount,
                   proxyUsed, pageVars, batchVars, histVars>>

\* lines 39-44: an entry whose page was visited is dropped
SkipVisited ==
    /\ pc = "loop"
    /\ pageQueue # << >>
    /\ ~aborted
    /\ AlreadyVisited(Head(pageQueue).url)
    /\ pageQueue' = Tail(pageQueue)
    /\ UNCHANGED <<apiVars, appVars, uiVars, srvVars, inputVars, ctlVars, allResults, visitedPages, checkedPagesCount,
                   proxyUsed, pageVars, batchVars, histVars>>

\* lines 39-53: the next page is taken from the queue
BeginPage ==
    /\ pc = "loop"
    /\ pageQueue # << >>
    /\ ~aborted
    /\ ~AlreadyVisited(Head(pageQueue).url)
    /\ pageQueue' = Tail(pageQueue)
    /\ visitedPages' = visitedPages \cup {Head(pageQueue).url}
    /\ currentUrl' = Head(pageQueue).url
    /\ currentDepth' = Head(pageQueue).depth
    /\ proxyIdx' = 1
    /\ error' = "null"
    /\ visitOrder' = Append(visitOrder, Head(pageQueue).url)
    /\ visitDepths' = Append(visitDepths, Head(pageQueue).depth)
    /\ attempts' = << >>
    /\ pc' = "proxy"
    /\ UNCHANGED <<apiVars, appVars, uiVars, srvVars, inputVars, aborted, outcome, allResults, checkedPagesCount,
                   proxyUsed, batchVars, enqLog, fetched>>

\* the loop's end without the test of line 179
FinishedUnchecked(ab) == "resolved"

\* lines 39, 179-193: the loop ends
Finished(ab) == IF ab THEN "AbortError" ELSE "resolved"

LoopExit ==
    /\ pc = "loop"
    /\ pageQueue = << >> \/ aborted
    /\ outcome' = Finished(aborted)
    /\ pc' = IF outcome' = "resolved" THEN "resolved" ELSE "rejected"
    /\ UNCHANGED <<apiVars, appVars, uiVars, srvVars, inputVars, aborted, crawlVars, pageVars, batchVars, histVars>>

\* a page catch that throws every error on
PageCatchRethrow(ab) ==
    /\ pc' = "rejected"
    /\ outcome' = IF ab THEN "AbortError" ELSE "Error"
    /\ checkedPagesCount' = checkedPagesCount

\* a page catch that takes an error named AbortError for a cancellation
PageCatchByName(ab) ==
    IF ab \/ error = "AbortError"
    THEN /\ pc' = "rejected"
         /\ outcome' = "AbortError"
         /\ checkedPagesCount' = checkedPagesCount
    ELSE /\ pc' = "cbPageErr"
         /\ outcome' = outcome
         /\ checkedPagesCount' = checkedPagesCount + 1

\* a page catch that leaves the counter alone
PageCatchNoCount(ab) ==
    IF ab
    THEN /\ pc' = "rejected"
         /\ outcome' = "AbortError"
         /\ checkedPagesCount' = checkedPagesCount
    ELSE /\ pc' = "cbPageErr"
         /\ outcome' = outcome
         /\ checkedPagesCount' = checkedPagesCount

\* lines 166-176: the catch of the page's try block
PageCatch(ab) ==
    IF ab
    THEN /\ pc' = "rejected"
         /\ outcome' = "AbortError"
         /\ checkedPagesCount' = checkedPagesCount
    ELSE /\ pc' = "cbPageErr"
         /\ outcome' = outcome
         /\ checkedPagesCount' = checkedPagesCount + 1

\* a proxy catch that passes over the next proxy
ProxyCatchSkip(err, ab) ==
    IF ab
    THEN /\ PageCatch(ab)
         /\ UNCHANGED <<error, proxyIdx>>
    ELSE /\ error' = err
         /\ proxyIdx' = proxyIdx + 2
         /\ pc' = "proxy"
         /\ UNCHANGED <<outcome, checkedPagesCount>>

\* lines 92-97: the catch of one proxy attempt
ProxyCatch(err, ab) ==
    IF ab
    THEN /\ PageCatch(ab)
         /\ UNCHANGED <<error, proxyIdx>>
    ELSE /\ error' = err
         /\ proxyIdx' = proxyIdx + 1
         /\ pc' = "proxy"
         /\ UNCHANGED <<outcome, checkedPagesCount>>

\* the end of the last attempt of the page
Settle(att, res) == [att EXCEPT ![Len(att)].result = res]

\* a proxy that, once found, is kept for the whole crawl
ProxyKeptFirst(old, proxy) == IF old = "" THEN proxy ELSE old

\* line 90: proxyUsed = proxy
ProxyAfter(old, proxy) == proxy

\* lines 55-75 and 100-103: the next proxy is tried, or none is left
TryProxy ==
    /\ pc = "proxy"
    /\ IF proxyIdx > Len(corsProxies) \/ aborted
       THEN /\ PageCatch(aborted)
            /\ UNCHANGED attempts
       ELSE /\ pc' = "fetching"
            /\ attempts' = Append(attempts, [proxy |-> corsProxies[proxyIdx],
                                             result |-> "pending"])
            /\ UNCHANGED <<outcome, checkedPagesCount>>
    /\ UNCHANGED <<apiVars, appVars, uiVars, srvVars, inputVars, aborted, allResults, visitedPages, pageQueue, proxyUsed,
                   pageVars, batchVars, visitOrder, enqLog, visitDepths, fetched>>

\* lines 75-87: the proxy answered
FetchResponds ==
    /\ pc = "fetching"
    /\ \E status \in Statuses :
          IF Ok(status)
          THEN /\ pc' = "reading"
               /\ UNCHANGED <<outcome, checkedPagesCount, error, proxyIdx, attempts>>
          ELSE /\ ProxyCatch("Failed to fetch the page", aborted)
               /\ attempts' = Settle(attempts, "failed")
    /\ UNCHANGED <<apiVars, appVars, uiVars, srvVars, inputVars, aborted, allResults, visitedPages, pageQueue, proxyUsed,
                   currentUrl, currentDepth, batchVars, visitOrder, enqLog, visitDepths, fetched>>

\* lines 75, 89, 92-97: the fetch or the reading of the body threw
FetchThrows ==
    /\ pc \in {"fetching", "reading"}
    /\ \E err \in Throwables : ProxyCatch(err.name, aborted)
    /\ attempts' = Settle(attempts, "failed")
    /\ UNCHANGED <<apiVars, appVars, uiVars, srvVars, inputVars, aborted, allResults, visitedPages, pageQueue, proxyUsed,
                   currentUrl, currentDepth, batchVars, visitOrder, enqLog, visitDepths, fetched>>

\* line 278: the test of the signal before a window
BatchGuard(ab) == ab

\* lines 284-289: the window goes on, or Promise.all settles
Order(ord, k, slot) == IF slot.stage = "done" THEN Append(ord, k) ELSE ord

\* a callback that hands on all results of the page so far
onBatchCompleteAll(all, batchResults) == all

\* lines 131-135 and 287-289, Index.tsx line 50: the callback hands the
\* results of the window to onProgress, which appends them to the results
\* on display
onBatchComplete(all, batchResults) == batchResults

\* a window that goes on as soon as one of its calls has returned
WindowTailEager(sl, ord, ab) ==
    /\ slots' = sl
    /\ settleOrder' = ord
    /\ IF AnyRejected(sl)
       THEN /\ results' = results
            /\ uiResults' = uiResults
            /\ PageCatch(ab)
       ELSE IF \E k \in 1..Len(sl) : sl[k].stage = "done"
       THEN /\ results' = results \o
                    [k \in 1..Len(sl) |->
                        IF sl[k].stage = "done" THEN sl[k].result[1]
                        ELSE [url |-> sl[k].url, isWorking |-> FALSE,
                              statusCode |-> << >>, error |-> << >>,
                              sourcePage |-> << >>]]
            /\ uiResults' = uiResults \o SubSeq(results', Len(results) + 1, Len(results'))
            /\ pc' = "cbProgress"
            /\ UNCHANGED <<outcome, checkedPagesCount>>
       ELSE /\ results' = results
            /\ pc' = "batch"
            /\ UNCHANGED <<outcome, checkedPagesCount, uiResults>>

WindowTail(sl, ord, ab) ==
    /\ slots' = sl
    /\ settleOrder' = ord
    /\ IF AnyRejected(sl)
       THEN /\ results' = results
            /\ uiResults' = uiResults
            /\ PageCatch(ab)
       ELSE IF AllDone(sl)
       THEN /\ results' = results \o WindowResults(sl, ord)
            /\ uiResults' = uiResults \o onBatchComplete(results', WindowResults(sl, ord))
            /\ pc' = "cbProgress"
            /\ UNCHANGED <<outcome, checkedPagesCount>>
       ELSE /\ results' = results
            /\ pc' = "batch"
            /\ UNCHANGED <<outcome, checkedPagesCount, uiResults>>

\* lines 277-284: one turn of the window loop
RunWindow(links, base, ab, proxy) ==
    IF BatchGuard(ab)
    THEN /\ PageCatch(ab)
         /\ UNCHANGED <<slots, settleOrder, results, uiResults>>
    ELSE WindowTail(StartWindow(links, base, ab, <<currentUrl>>, proxy), << >>, ab)

\* lines 89-136: the body was read; links are extracted and the first
\* window is issued.  The proxy loop is left, so its index and the last
\* error are out of use.
TextResolves ==
    /\ pc = "reading"
    /\ proxyUsed' = ProxyAfter(proxyUsed, corsProxies[proxyIdx])
    /\ attempts' = Settle(attempts, "ok")
    /\ proxyIdx' = 0
    /\ error' = "null"
    /\ \E empty \in BOOLEAN :
          IF empty
          THEN /\ PageCatch(aborted)
               /\ UNCHANGED <<batchVars, fetched, uiResults>>
          ELSE LET links == LinksToCheck(site[currentUrl], currentUrl, recursive)
               IN  /\ fetched' = fetched \cup {currentUrl}
                   /\ IF links = << >>
                      THEN /\ pc' = "cbPageEmpty"
                           /\ checkedPagesCount' = checkedPagesCount + 1
                           /\ UNCHANGED <<outcome, batchVars, uiResults>>
                      ELSE /\ linksToCheck' = links
                           /\ i' = 0
                           /\ RunWindow(links, 0, aborted, proxyUsed')
    /\ UNCHANGED <<apiVars, appVars, csvRows, srvVars, inputVars, aborted, allResults, visitedPages, pageQueue,
                   currentUrl, currentDepth, visitOrder, enqLog, visitDepths>>

\* lines 339-356: a HEAD request completed with a response
HeadResponds ==
    /\ pc = "batch"
    /\ \E k \in 1..Len(slots), status \in Statuses :
          /\ slots[k].stage = "head"
          /\ LET slot == OnHeadResponse(slots[k], status, <<currentUrl>>)
             IN  WindowTail([slots EXCEPT ![k] = slot], Order(settleOrder, k, slot),
                            aborted)
    /\ UNCHANGED <<apiVars, appVars, csvRows, srvVars, inputVars, aborted, allResults, visitedPages, pageQueue, proxyUsed,
                   pageVars, linksToCheck, i, histVars>>

\* lines 357-381: a HEAD request threw or timed out
HeadThrows ==
    /\ pc = "batch"
    /\ \E k \in 1..Len(slots), err \in Throwables :
          /\ slots[k].stage = "head"
          /\ LET slot == OnHeadThrow(slots[k], err, aborted, <<currentUrl>>)
             IN  WindowTail([slots EXCEPT ![k] = slot], Order(settleOrder, k, slot),
                            aborted)
    /\ UNCHANGED <<apiVars, appVars, csvRows, srvVars, inputVars, aborted, allResults, visitedPages, pageQueue, proxyUsed,
                   pageVars, linksToCheck, i, histVars>>

\* lines 374-391: a GET request completed with a response
GetResponds ==
    /\ pc = "batch"
    /\ \E k \in 1..Len(slots), status \in Statuses :
          /\ slots[k].stage = "get"
          /\ LET slot == OnGetResponse(slots[k], status, <<currentUrl>>)
             IN  WindowTail([slots EXCEPT ![k] = slot], Order(settleOrder, k, slot),
                            aborted)
    /\ UNCHANGED <<apiVars, appVars, csvRows, srvVars, inputVars, aborted, allResults, visitedPages, pageQueue, proxyUsed,
                   pageVars, linksToCheck, i, histVars>>

\* lines 392-417: a GET request threw or timed out
GetThrows ==
    /\ pc = "batch"
    /\ \E k \in 1..Len(slots), err \in Throwables :
          /\ slots[k].stage = "get"
          /\ LET slot == OnGetThrow(slots[k], err, aborted, <<currentUrl>>)
             IN  WindowTail([slots EXCEPT ![k] = slot], Order(settleOrder, k, slot),
                            aborted)
    /\ UNCHANGED <<apiVars, appVars, csvRows, srvVars, inputVars, aborted, allResults, visitedPages, pageQueue, proxyUsed,
                   pageVars, linksToCheck, i, histVars>>

\* lines 287-294, 277-283, 296-304, 138-140: onProgress returned; the next
\* window is issued, or the page's results are appended
AfterProgress ==
    /\ pc = "cbProgress"
    /\ IF i + batchSize < Len(linksToCheck)
       THEN /\ i' = i + batchSize
            /\ RunWindow(linksToCheck, i + batchSize, aborted, proxyUsed)
            /\ UNCHANGED allResults
       ELSE /\ allResults' = allResults \o results
            /\ checkedPagesCount' = checkedPagesCount + 1
            /\ pc' = "cbPageDone"
            /\ slots' = << >>
            /\ settleOrder' = << >>
            /\ UNCHANGED <<i, results, outcome, uiResults>>
    /\ UNCHANGED <<apiVars, appVars, csvRows, srvVars, inputVars, aborted, visitedPages, pageQueue, proxyUsed, pageVars,
                   linksToCheck, histVars>>

\* lines 118-119 and 175-176: onPageChecked returned; the loop continues
AfterPageChecked ==
    /\ pc \in {"cbPageEmpty", "cbPageErr"}
    /\ pc' = "loop"
    /\ ResetPage
    /\ ResetBatch
    /\ UNCHANGED <<apiVars, appVars, uiVars, srvVars, inputVars, aborted, outcome, crawlVars, histVars>>

\* lines 141-165: onPageChecked returned; new pages are pushed
EnqueueNewPages ==
    /\ pc = "cbPageDone"
    /\ LET newPages == IF MayEnqueue(recursive, currentDepth, maxDepth, aborted)
                       THEN NewPages(results, currentDepth) ELSE << >>
       IN  /\ pageQueue' = Push(pageQueue, newPages)
           /\ enqLog' = enqLog \cup
                  {[url |-> newPages[k].url, depth |-> newPages[k].depth,
                    from |-> currentUrl] : k \in 1..Len(newPages)}
    /\ pc' = "loop"
    /\ ResetPage
    /\ ResetBatch
    /\ UNCHANGED <<apiVars, appVars, uiVars, srvVars, inputVars, aborted, outcome, allResults, visitedPages,
                   checkedPagesCount, proxyUsed, visitOrder, visitDepths, fetched, attempts>>

\* the signal is aborted before checkLinks is called
AbortBeforeCall ==
    /\ pc = "idle"
    /\ ~aborted
    /\ aborted' = TRUE
    /\ UNCHANGED <<apiVars, appVars, uiVars, srvVars, inputVars, pc, outcome, crawlVars, pageVars, batchVars, histVars>>

\* lines 67-71, 92-93: the signal is aborted during a page fetch; the
\* listener aborts the request, which throws
AbortInFetch ==
    /\ pc \in {"fetching", "reading"}
    /\ ~aborted
    /\ aborted' = TRUE
    /\ ProxyCatch(CancelErr.name, TRUE)
    /\ attempts' = Settle(attempts, "aborted")
    /\ UNCHANGED <<apiVars, appVars, uiVars, srvVars, inputVars, allResults, visitedPages, pageQueue, proxyUsed,
                   currentUrl, currentDepth, batchVars, visitOrder, enqLog, visitDepths, fetched>>

\* lines 331-335, 365-369: the signal is aborted during a window; the
\* listeners abort every request in flight, each of which throws
AbortInBatch ==
    /\ pc = "batch"
    /\ ~aborted
    /\ aborted' = TRUE
    /\ LET sl == [k \in 1..Len(slots) |->
                    CASE slots[k].stage = "head" ->
                            OnHeadThrow(slots[k], CancelErr, TRUE, <<currentUrl>>)
                      [] slots[k].stage = "get" ->
                            OnGetThrow(slots[k], CancelErr, TRUE, <<currentUrl>>)
                      [] OTHER -> slots[k]]
       IN  WindowTail(sl, settleOrder, TRUE)
    /\ UNCHANGED <<apiVars, appVars, csvRows, srvVars, inputVars, allResults, visitedPages, pageQueue, proxyUsed,
                   pageVars, linksToCheck, i, histVars>>

\* the signal is aborted by the caller from inside onProgress or
\* onPageChecked
AbortInCallback ==
    /\ pc \in {"cbProgress", "cbPageEmpty", "cbPageErr", "cbPageDone"}
    /\ ~aborted
    /\ aborted' = TRUE
    /\ UNCHANGED <<apiVars, appVars, uiVars, srvVars, inputVars, pc, outcome, crawlVars, pageVars, batchVars, histVars>>

Abort == AbortBeforeCall \/ AbortInFetch \/ AbortInBatch \/ AbortInCallback

Progress ==
    \/ Call \/ SkipVisited \/ BeginPage \/ LoopExit \/ TryProxy
    \/ FetchResponds \/ FetchThrows \/ TextResolves
    \/ HeadResponds \/ HeadThrows \/ GetResponds \/ GetThrows
    \/ AfterProgress \/ AfterPageChecked \/ EnqueueNewPages

Next == Progress \/ Abort

Spec == Init /\ [][Next]_vars

\* lines 108-113 alone: the links of one document are extracted, made
\* unique and cut to the links to check
InitLinks ==
    /\ url = S
    /\ recursive \in BOOLEAN
    /\ maxDepth = 0
    /\ site \in DocSites
    /\ Start
    /\ reqUrl = << >>
    /\ HandlerIdle
    /\ PageIdle

ExtractOnly ==
    /\ pc = "idle"
    /\ pc' = "extracted"
    /\ linksToCheck' = LinksToCheck(site[url], url, recursive)
    /\ UNCHANGED <<apiVars, appVars, uiVars, srvVars, inputVars, aborted, outcome, crawlVars, pageVars, i, results,
                   slots, settleOrder, histVars>>

\* lines 238-258 alone: extractLinks in an environment without DOMParser;
\* linksToCheck holds the list it returns
ExtractFallback ==
    /\ pc = "idle"
    /\ pc' = "fallback"
    /\ linksToCheck' = extractLinksFallback(site[url], url)
    /\ UNCHANGED <<apiVars, appVars, uiVars, srvVars, inputVars, aborted, outcome, crawlVars, pageVars, i, results,
                   slots, settleOrder, histVars>>

NextLinks == ExtractOnly \/ ExtractFallback

SpecLinks == InitLinks /\ [][NextLinks]_vars

----------------------------------------------------------------------------
(* The server handler of src/unnamed/part_004 (the handler of              *)
(* src/unnamed/part_005 takes the same steps with NextResponse.json).      *)

JsonResponse(status, body) ==
    <<[status |-> status, contentType |-> "application/json", body |-> body]>>

\* part_004 lines 134-139: the result of a response
HandlerFromResponse(link, status) ==
    [url |-> link, isWorking |-> Ok(status), statusCode |-> <<status>>,
     error |-> IF Ok(status) THEN << >> ELSE <<StatusLine(status)>>]

\* part_004 lines 140-155: the result of a failure
HandlerFromError(link, err) ==
    [url |-> link, isWorking |-> FALSE, statusCode |-> << >>,
     error |-> <<ErrorMessage(err)>>]

\* part_004 lines 99-100: the calls of the window at offset base
HandlerWindow(links, base) ==
    [k \in 1..Min(handlerBatchSize, Len(links) - base) |->
        [url |-> links[base + k], stage |-> "head", result |-> << >>]]

\* part_004 lines 98-105 and 51-57: a call of the window returned
HandlerTail(sl) ==
    /\ IF \E k \in 1..Len(sl) : sl[k].stage # "done"
       THEN /\ hslots' = sl
            /\ UNCHANGED <<hpc, hi, hresults, response>>
       ELSE LET all == hresults \o [k \in 1..Len(sl) |-> sl[k].result[1]]
            IN  /\ hresults' = all
                /\ IF hi + handlerBatchSize < Len(hlinks)
                   THEN /\ hi' = hi + handlerBatchSize
                        /\ hslots' = HandlerWindow(hlinks, hi + handlerBatchSize)
                        /\ UNCHANGED <<hpc, response>>
                   ELSE /\ hslots' = << >>
                        /\ hpc' = "responded"
                        /\ response' = JsonResponse(200, [results |-> all])
                        /\ UNCHANGED hi
    /\ UNCHANGED <<apiVars, appVars, uiVars, inputVars, clientVars, reqUrl, hlinks, failure>>

\* a page with one link more than a window of the handler
SiteWide == [NoLinks EXCEPT ![S] = Cyclic(handlerBatchSize + 1, handlerBatchSize + 1)]

InitHandler ==
    /\ url = S
    /\ recursive = FALSE
    /\ maxDepth = 0
    /\ site \in Sites \cup {SiteWide}
    /\ Start
    /\ reqUrl \in {<< >>, <<S>>, <<BadUrl>>}
    /\ HandlerIdle
    /\ PageIdle

\* part_004 lines 8-25: the request arrives
Receive ==
    /\ hpc = "idle"
    /\ IF reqUrl = << >>
       THEN /\ hpc' = "responded"
            /\ failure' = "missing"
            /\ response' = JsonResponse(400, [error |-> "URL parameter is required"])
       ELSE /\ hpc' = "fetching"
            /\ UNCHANGED <<failure, response>>
    /\ UNCHANGED <<apiVars, appVars, uiVars, inputVars, clientVars, reqUrl, hlinks, hi, hresults, hslots>>

\* part_004 lines 21-37: the fetch of the target page yields a response
TargetResponds ==
    /\ hpc = "fetching"
    /\ Parses(reqUrl[1])
    /\ \E status \in Statuses :
          IF Ok(status)
          THEN /\ hpc' = "reading"
               /\ UNCHANGED <<failure, response>>
          ELSE /\ hpc' = "responded"
               /\ failure' = "status"
               /\ response' = JsonResponse(400,
                      [error |-> "Failed to fetch the URL: " \o StatusLine(status)])
    /\ UNCHANGED <<apiVars, appVars, uiVars, inputVars, clientVars, reqUrl, hlinks, hi, hresults, hslots>>

\* part_004 lines 21, 58-66: the fetch of the target page rejects (the
\* URL does not parse, or the network fails); the catch answers
TargetThrows ==
    /\ hpc = "fetching"
    /\ hpc' = "responded"
    /\ failure' = "network"
    /\ response' = JsonResponse(500,
           [error |-> "Failed to check links: " \o NetworkErr.message])
    /\ UNCHANGED <<apiVars, appVars, uiVars, inputVars, clientVars, reqUrl, hlinks, hi, hresults, hslots>>

\* part_004 lines 39-57: the body was read; the unique links are checked
BodyResolves ==
    /\ hpc = "reading"
    /\ LET links == Unique(extractLinks(site[reqUrl[1]], reqUrl[1]))
       IN  /\ hlinks' = links
           /\ IF links = << >>
              THEN /\ hpc' = "responded"
                   /\ response' = JsonResponse(200, [results |-> << >>])
                   /\ UNCHANGED hslots
              ELSE /\ hpc' = "checking"
                   /\ hslots' = HandlerWindow(links, 0)
                   /\ UNCHANGED response
    /\ UNCHANGED <<apiVars, appVars, uiVars, inputVars, clientVars, reqUrl, hi, hresults, failure>>

\* part_004 lines 39, 58-66: reading the body fails; the catch answers
BodyThrows ==
    /\ hpc = "reading"
    /\ hpc' = "responded"
    /\ failure' = "body"
    /\ response' = JsonResponse(500,
           [error |-> "Failed to check links: " \o NetworkErr.message])
    /\ UNCHANGED <<apiVars, appVars, uiVars, inputVars, clientVars, reqUrl, hlinks, hi, hresults, hslots>>

\* part_004 lines 113-139: a request of a call yields a response
LinkResponds ==
    /\ hpc = "checking"
    /\ \E k \in 1..Len(hslots), status \in Statuses :
          /\ hslots[k].stage \in {"head", "get"}
          /\ HandlerTail([hslots EXCEPT ![k].stage = "done",
                 ![k].result = <<HandlerFromResponse(hslots[k].url, status)>>])

\* part_004 lines 120-130: the HEAD request rejects; GET is issued
LinkHeadThrows ==
    /\ hpc = "checking"
    /\ \E k \in 1..Len(hslots) :
          /\ hslots[k].stage = "head"
          /\ HandlerTail([hslots EXCEPT ![k].stage = "get"])

\* part_004 lines 122-155: the GET request rejects
LinkGetThrows ==
    /\ hpc = "checking"
    /\ \E k \in 1..Len(hslots), err \in Throwables :
          /\ hslots[k].stage = "get"
          /\ HandlerTail([hslots EXCEPT ![k].stage = "done",
                 ![k].result = <<HandlerFromError(hslots[k].url, err)>>])

NextHandler ==
    \/ Receive \/ TargetResponds \/ TargetThrows \/ BodyResolves \/ BodyThrows
    \/ LinkResponds \/ LinkHeadThrows \/ LinkGetThrows

SpecHandler == InitHandler /\ [][NextHandler]_vars

----------------------------------------------------------------------------
(* The CSV export of src/src/pages/Index.tsx.  A text is the sequence of   *)
(* its characters, in which a run of characters other than the double      *)
(* quote may stand as one element.  A row is the sequence of its four      *)
(* fields before they are joined, and a field is a text.                   *)

Quote == "\""
Chars == {"a", ",", Quote}
Texts == UNION {[1..n -> Chars] : n \in 1..MaxErrLen}
ExampleErr == <<"He said ", Quote, "hi", Quote>>

\* Index.tsx line 89: replace(/"/g, '""')
RECURSIVE DoubleQuotes(_)
DoubleQuotes(t) ==
    IF t = << >> THEN << >>
    ELSE (IF Head(t) = Quote THEN <<Quote, Quote>> ELSE <<Head(t)>>)
            \o DoubleQuotes(Tail(t))

\* an error field that wraps the text as it is
ErrorFieldPlain(r) ==
    IF r.error # << >> /\ r.error[1] # << >>
    THEN <<Quote>> \o r.error[1] \o <<Quote>>
    ELSE << >>

\* Index.tsx line 89: the error field of a row
ErrorField(r) ==
    IF r.error # << >> /\ r.error[1] # << >>
    THEN <<Quote>> \o DoubleQuotes(r.error[1]) \o <<Quote>>
    ELSE << >>

\* Index.tsx lines 83-91
CsvHeader == << <<"URL">>, <<"Status">>, <<"Status Code">>, <<"Error">> >>
CsvRow(r) ==
    << <<r.url>>, <<IF r.isWorking THEN "Working" ELSE "Broken">>, r.statusCode,
       ErrorField(r) >>

\* results as checkSingleLink makes them: an error text is not empty
WorkingResult ==
    [url |-> A, isWorking |-> TRUE, statusCode |-> <<200>>, error |-> << >>,
     sourcePage |-> <<S>>]
BrokenResult(t, code) ==
    [url |-> X, isWorking |-> FALSE, statusCode |-> code, error |-> <<t>>,
     sourcePage |-> <<S>>]
CsvInputs ==
    { << >>, <<WorkingResult>> }
        \cup {<<BrokenResult(t, code)>> :
                  t \in Texts \cup {ExampleErr}, code \in {<< >>, <<404>>}}
        \cup {<<WorkingResult, BrokenResult(t, <<404>>)>> : t \in {ExampleErr, <<Quote>>}}

InitCsv ==
    /\ url = S
    /\ recursive = FALSE
    /\ maxDepth = 0
    /\ site = NoLinks
    /\ Start
    /\ reqUrl = << >>
    /\ HandlerIdle
    /\ uiResults \in CsvInputs
    /\ csvRows = << >>
    /\ AppIdle
    /\ ApiIdle

\* Index.tsx lines 79-92
DownloadCsv ==
    /\ uiResults # << >>
    /\ csvRows' = <<CsvHeader>> \o [k \in 1..Len(uiResults) |-> CsvRow(uiResults[k])]
    /\ UNCHANGED <<apiVars, appVars, uiResults, srvVars, inputVars, clientVars>>

NextCsv == DownloadCsv

SpecCsv == InitCsv /\ [][NextCsv]_vars

----------------------------------------------------------------------------
(* The client of the server endpoint, src/unnamed/part_002.  The body of a  *)
(* reply is text that is not JSON, the JSON value null, or a JSON object,   *)
(* of which the property results is absent, a string, null or an array.     *)

ApiStatuses == {200, 201, 400, 404, 500}
ApiArray(items) == [type |-> "array", items |-> items]
ApiString == [type |-> "string", items |-> << >>]
ApiNull == [type |-> "null", items |-> << >>]
ApiResultLists ==
    { << >>, <<WorkingResult>>, <<BrokenResult(ExampleErr, <<404>>)>>,
      <<WorkingResult, BrokenResult(ExampleErr, <<404>>)>> }
ApiBodies ==
    {[type |-> t, results |-> ApiUndefined] : t \in {"text", "null", "object"}}
        \cup {[type |-> "object", results |-> v] :
                  v \in {ApiString, ApiNull} \cup {ApiArray(l) : l \in ApiResultLists}}
ApiReplies ==
    {[kind |-> "failure", status |-> 0, body |-> [type |-> "text", results |-> ApiUndefined]]}
        \cup {[kind |-> "response", status |-> st, body |-> b] :
                  st \in ApiStatuses, b \in ApiBodies}

InitApi ==
    /\ url = S
    /\ recursive = FALSE
    /\ maxDepth = 0
    /\ site = NoLinks
    /\ Start
    /\ reqUrl = << >>
    /\ HandlerIdle
    /\ uiResults = << >>
    /\ csvRows = << >>
    /\ AppIdle
    /\ apiReply \in ApiReplies
    /\ apiCall = [pc |-> "idle", value |-> ApiUndefined, err |-> "none"]

\* part_002 line 13: return data.results
ApiReturn(body) == [pc |-> "resolved", value |-> body.results, err |-> "none"]

\* part_002 lines 4-6: the call, up to the await of the fetch
ApiCalls ==
    /\ apiCall.pc = "idle"
    /\ apiCall' = [apiCall EXCEPT !.pc = "fetching"]
    /\ UNCHANGED <<apiReply, appVars, uiVars, srvVars, inputVars, clientVars>>

\* part_002 lines 6-10 and 14-18: the fetch settles; a response that is not
\* ok is thrown as Error("Error: <status>"), and every error is thrown on
ApiFetchSettles ==
    /\ apiCall.pc = "fetching"
    /\ apiCall' =
          IF apiReply.kind = "failure"
          THEN [apiCall EXCEPT !.pc = "rejected", !.err = "TypeError"]
          ELSE IF ~Ok(apiReply.status)
          THEN [apiCall EXCEPT !.pc = "rejected", !.err = "Error: status"]
          ELSE [apiCall EXCEPT !.pc = "parsing"]
    /\ UNCHANGED <<apiReply, appVars, uiVars, srvVars, inputVars, clientVars>>

\* part_002 lines 12-18: response.json() settles: it rejects with a
\* SyntaxError for a body that is not JSON, the read of a property of null
\* throws a TypeError, and a property that is absent reads as undefined
ApiJsonSettles ==
    /\ apiCall.pc = "parsing"
    /\ apiCall' =
          CASE apiReply.body.type = "text" ->
                  [apiCall EXCEPT !.pc = "rejected", !.err = "SyntaxError"]
            [] apiReply.body.type = "null" ->
                  [apiCall EXCEPT !.pc = "rejected", !.err = "TypeError"]
            [] OTHER -> ApiReturn(apiReply.body)
    /\ UNCHANGED <<apiReply, appVars, uiVars, srvVars, inputVars, clientVars>>

NextApi == ApiCalls \/ ApiFetchSettles \/ ApiJsonSettles

SpecApi == InitApi /\ [][NextApi]_vars

----------------------------------------------------------------------------
(* The Index page, src/src/pages/Index.tsx.  handleSubmit is the onSubmit   *)
(* prop of the form; it tests its URL argument and nothing else, and Submit *)
(* is a call of it by any caller (the form of UrlForm.tsx disables its      *)
(* controls while isLoading).  A call                                       *)
(* of checkLinks is a record of checks: whether its signal is aborted,      *)
(* whether it is pending or settled, whether its URL parses, and how many   *)
(* payloads it has handed to onProgress.  A pending call resolves while     *)
(* its signal is not aborted and rejects when its signal is aborted; a call *)
(* whose URL does not parse rejects before it awaits anything, so that      *)
(* handleSubmit runs to its end before any other event is handled.          *)
(* abortControllerRef is 0 for null and otherwise the number of the call    *)
(* whose controller it holds.  The states url, isRecursive, maxDepth and    *)
(* checkedPages only echo arguments and are left out.                       *)

InitIndex ==
    /\ url = S
    /\ recursive = FALSE
    /\ maxDepth = 0
    /\ site = NoLinks
    /\ Start
    /\ reqUrl = << >>
    /\ HandlerIdle
    /\ PageIdle

Pending(k) == k \in 1..Len(checks) /\ checks[k].state = "pending"

\* Index.tsx lines 25-59: handleSubmit up to the await of checkLinks, and
\* lines 63-76 with it when checkLinks rejects at the parse of the URL
Submit ==
    /\ Len(checks) < MaxChecks
    /\ \E valid \in BOOLEAN :
          LET stopped == IF abortControllerRef = 0 THEN checks
                         ELSE [checks EXCEPT ![abortControllerRef].aborted = TRUE]
          IN  IF valid
              THEN /\ checks' = Append(stopped, [aborted |-> FALSE, state |-> "pending",
                                                 valid |-> TRUE, payloads |-> 0])
                   /\ abortControllerRef' = Len(checks) + 1
                   /\ isChecking' = TRUE
                   /\ hasChecked' = FALSE
                   /\ uiError' = "null"
              ELSE /\ checks' = Append(stopped, [aborted |-> FALSE, state |-> "rejected",
                                                 valid |-> FALSE, payloads |-> 0])
                   /\ abortControllerRef' = 0
                   /\ isChecking' = FALSE
                   /\ hasChecked' = TRUE
                   /\ uiError' = "Invalid URL"
    /\ uiResults' = << >>
    /\ UNCHANGED <<csvRows, apiVars, srvVars, inputVars, clientVars>>

\* Index.tsx lines 121-127: the Cancel button, rendered while isChecking
Cancel ==
    /\ isChecking
    /\ abortControllerRef # 0
    /\ ~checks[abortControllerRef].aborted
    /\ checks' = [checks EXCEPT ![abortControllerRef].aborted = TRUE]
    /\ UNCHANGED <<isChecking, hasChecked, uiError, abortControllerRef, uiVars, apiVars,
                   srvVars, inputVars, clientVars>>

\* Index.tsx lines 49-51: onProgress of a call appends to the results
OnProgress ==
    /\ \E k \in 1..Len(checks) :
          /\ Pending(k)
          /\ ~checks[k].aborted
          /\ checks[k].payloads < MaxPayloads
          /\ checks' = [checks EXCEPT ![k].payloads = @ + 1]
          /\ uiResults' = uiResults \o <<WorkingResult>>
    /\ UNCHANGED <<isChecking, hasChecked, uiError, abortControllerRef, csvRows, apiVars,
                   srvVars, inputVars, clientVars>>

\* Index.tsx lines 59-60 and 73-76: checkLinks resolved with its results
CheckResolves ==
    /\ \E k \in 1..Len(checks) :
          /\ Pending(k)
          /\ ~checks[k].aborted
          /\ checks' = [checks EXCEPT ![k].state = "resolved"]
          /\ uiResults' = [j \in 1..checks[k].payloads |-> WorkingResult]
    /\ hasChecked' = TRUE
    /\ isChecking' = FALSE
    /\ abortControllerRef' = 0
    /\ UNCHANGED <<uiError, csvRows, apiVars, srvVars, inputVars, clientVars>>

\* Index.tsx lines 63-76: checkLinks rejected with an AbortError
CheckRejects ==
    /\ \E k \in 1..Len(checks) :
          /\ Pending(k)
          /\ checks[k].aborted
          /\ checks' = [checks EXCEPT ![k].state = "rejected"]
    /\ uiError' = "Link checking was cancelled."
    /\ hasChecked' = TRUE
    /\ isChecking' = FALSE
    /\ abortControllerRef' = 0
    /\ UNCHANGED <<uiVars, apiVars, srvVars, inputVars, clientVars>>

NextIndex == Submit \/ Cancel \/ OnProgress \/ CheckResolves \/ CheckRejects

SpecIndex == InitIndex /\ [][NextIndex]_vars

\* every request settles and the program takes its own steps
FairSpec == Spec /\ WF_vars(Progress)

Terminated == pc \in {"resolved", "rejected"}

----------------------------------------------------------------------------
(* Properties *)

Range(f) == {f[k] : k \in DOMAIN f}
Present(opt) == opt # << >>
InFlight(slot) == slot.stage \in {"head", "get"}
SlotSet == Range(slots)
DoneSlots == {sl \in SlotSet : sl.stage = "done"}

\* C1: no page URL is processed twice in a crawl, however often it was
\* pushed on the queue.
C1_NoRevisit ==
    \A j, k \in 1..Len(visitOrder) : j # k => visitOrder[j] # visitOrder[k]

\* a finished crawl in which one URL was pushed from two pages, at two depths
C1_Witness ==
    /\ pc = "resolved"
    /\ \E e1, e2 \in enqLog :
          /\ e1.url = e2.url
          /\ e1.from # e2.from
          /\ e1.depth # e2.depth
          /\ e1.url \in visitedPages

\* C2 as stated: whenever the signal was aborted before checkLinks settled,
\* it rejected with an AbortError.
C2_AbortAlwaysAbortError ==
    (aborted /\ Terminated) => outcome = "AbortError"

\* C2 amended: an aborted call never resolves; it rejects with an AbortError
\* when the start URL parses and with the parse error of line 26 otherwise.
C2_AbortRejects ==
    (aborted /\ Terminated) =>
        /\ pc = "rejected"
        /\ outcome = IF Parses(url) THEN "AbortError" ELSE "TypeError"

\* the signal was aborted after the last window of the last page
C2_Witness ==
    /\ outcome = "AbortError"
    /\ pageQueue = << >>
    /\ allResults # << >>
    /\ checkedPagesCount = Len(visitOrder)

\* C3: the results of checkLinksInBatches are the input links, one result
\* per link and in input order, whatever the order in which calls returned.
C3_BatchOrder ==
    pc \in {"batch", "cbProgress", "cbPageDone"} =>
        /\ Len(results) <= Len(linksToCheck)
        /\ \A k \in 1..Len(results) : results[k].url = linksToCheck[k]
        /\ pc = "cbPageDone" => Len(results) = Len(linksToCheck)

\* a full window whose last call returned first
C3_Witness ==
    /\ pc = "cbProgress"
    /\ Len(settleOrder) = batchSize
    /\ settleOrder[1] = batchSize
    /\ Len(results) = batchSize

\* C4: with maxDepth = 0 nothing is pushed and the only page processed is
\* the start URL; a crawl that resolves has processed exactly that page.
C4_DepthZero ==
    maxDepth = 0 =>
        /\ enqLog = {}
        /\ \A k \in 1..Len(pageQueue) : pageQueue[k] = [url |-> url, depth |-> 0]
        /\ Len(visitOrder) <= 1
        /\ \A k \in 1..Len(visitOrder) : visitOrder[k] = url
        /\ pc = "resolved" => visitOrder = <<url>>

\* a recursive crawl of depth 0 that found a working link of its own host
C4_Witness ==
    /\ maxDepth = 0
    /\ recursive
    /\ pc = "resolved"
    /\ \E k \in 1..Len(allResults) :
          /\ allResults[k].isWorking
          /\ Hostname(allResults[k].url) = baseDomain
          /\ allResults[k].url # url

\* C5: when every request settles, a call of checkLinks ends: it resolves
\* or it rejects.
C5_Terminates == <>Terminated

\* a recursive crawl of the cyclic site that visited all three pages
C5_Witness ==
    /\ pc = "resolved"
    /\ site = Site2
    /\ Len(visitOrder) = 3

\* C6: with a start URL that parses and a signal that is not aborted,
\* checkLinks does not reject, and when it ends it has resolved.
C6_NoRejection ==
    (Parses(url) /\ ~aborted) =>
        /\ pc # "rejected"
        /\ outcome \in {"pending", "resolved"}
        /\ Terminated => outcome = "resolved"

\* a crawl that resolved although its second page, which has links, could
\* not be fetched and a link of the first page failed in transport
C6_Witness ==
    /\ pc = "resolved"
    /\ site = Site2
    /\ visitOrder = <<S, A>>
    /\ checkedPagesCount = 2
    /\ \A k \in 1..Len(allResults) : allResults[k].sourcePage = <<url>>
    /\ \E k \in 1..Len(allResults) : ~Present(allResults[k].statusCode)

\* C7: in every result, error is present exactly when isWorking is false,
\* isWorking needs a successful status, and statusCode is present exactly
\* when the HEAD or the GET attempt completed with a response.
ShapeOk(r) ==
    /\ Present(r.error) <=> ~r.isWorking
    /\ r.isWorking => (Present(r.statusCode) /\ Ok(r.statusCode[1]))

C7_ResultShape ==
    /\ \A r \in Range(allResults) \cup Range(results) : ShapeOk(r)
    /\ \A sl \in DoneSlots :
          /\ ShapeOk(sl.result[1])
          /\ Present(sl.result[1].statusCode)
                <=> (sl.head = "response" \/ sl.get = "response")

\* a window with a working result, a failure response and a transport failure
C7_Witness ==
    /\ \E sl \in DoneSlots : sl.result[1].isWorking
    /\ \E sl \in DoneSlots : sl.get = "response" /\ ~sl.result[1].isWorking
    /\ \E sl \in DoneSlots : ~Present(sl.result[1].statusCode)

\* C8: GET is issued only after HEAD threw, and always then unless the
\* signal is aborted; a HEAD response decides the result without a GET; no
\* request is in flight under an aborted signal.
C8_HeadThenGet ==
    \A sl \in SlotSet :
        /\ sl.stage # "start"
        /\ sl.get # "none" => sl.head = "threw"
        /\ sl.head = "response" =>
              /\ sl.get = "none"
              /\ sl.stage = "done"
              /\ Present(sl.result[1].statusCode)
        /\ (sl.head = "threw" /\ sl.get = "none") => (sl.stage = "rejected" /\ aborted)
        /\ aborted => ~InFlight(sl)

\* one call answered by its GET after HEAD threw, next to one answered by HEAD
C8_Witness ==
    /\ \E sl \in DoneSlots : sl.head = "threw" /\ sl.get = "response"
    /\ \E sl \in DoneSlots : sl.head = "response"

\* C9: when HEAD and GET both threw and the signal is not aborted, the call
\* returns a result with isWorking false, no statusCode and the error
\* "Request timeout" after a GET timeout, else the transport's message.
C9_TransportFailure ==
    \A sl \in SlotSet :
        /\ sl.stage = "rejected" => aborted
        /\ (sl.head = "threw" /\ sl.get \in {"AbortError", "TypeError"} /\ ~aborted) =>
              /\ sl.stage = "done"
              /\ ~sl.result[1].isWorking
              /\ ~Present(sl.result[1].statusCode)
              /\ sl.result[1].error =
                    IF sl.get = "AbortError" THEN <<"Request timeout">>
                    ELSE <<NetworkErr.message>>

\* one call whose GET timed out next to one whose GET failed in the network
C9_Witness ==
    /\ ~aborted
    /\ \E sl \in DoneSlots : sl.get = "AbortError"
    /\ \E sl \in DoneSlots : sl.get = "TypeError"

\* C10: every push comes from a working result of the pushing page whose
\* host is the start URL's host; pages processed are the seed or pushed.
C10_OnlyWorkingSameHost ==
    /\ \A e \in enqLog :
          /\ Hostname(e.url) = Hostname(url)
          /\ \E k \in 1..Len(allResults) :
                /\ allResults[k].url = e.url
                /\ allResults[k].sourcePage = <<e.from>>
          /\ \A k \in 1..Len(allResults) :
                (allResults[k].url = e.url /\ allResults[k].sourcePage = <<e.from>>)
                    => allResults[k].isWorking
    /\ \A k \in 1..Len(pageQueue) :
          \/ pageQueue[k] = [url |-> url, depth |-> 0]
          \/ \E e \in enqLog : e.url = pageQueue[k].url /\ e.depth = pageQueue[k].depth
    /\ \A k \in 1..Len(visitOrder) :
          /\ Hostname(visitOrder[k]) = Hostname(url)
          /\ visitOrder[k] = url \/ \E e \in enqLog : e.url = visitOrder[k]

\* a finished crawl that pushed a page and reported a working link of
\* another host and a broken link of its own host
C10_Witness ==
    /\ pc = "resolved"
    /\ enqLog # {}
    /\ \E k \in 1..Len(allResults) :
          allResults[k].isWorking /\ Hostname(allResults[k].url) # Hostname(url)
    /\ \E k \in 1..Len(allResults) :
          ~allResults[k].isWorking /\ Hostname(allResults[k].url) = Hostname(url)

\* C11: every page processed was taken from the queue at a depth between 0
\* and maxDepth, and no entry deeper than maxDepth is ever put on the queue.
C11_DepthWithinLimit ==
    /\ Len(visitDepths) = Len(visitOrder)
    /\ \A k \in 1..Len(visitDepths) : visitDepths[k] \in 0..maxDepth
    /\ \A k \in 1..Len(pageQueue) : pageQueue[k].depth \in 0..maxDepth
    /\ \A e \in enqLog : e.depth \in 1..maxDepth
    /\ pc \notin {"idle", "loop", "resolved", "rejected"} => currentDepth \in 0..maxDepth

\* a finished crawl with a page processed at the depth limit whose working
\* link to an unvisited page of the same host was not followed
C11_Witness ==
    /\ pc = "resolved"
    /\ maxDepth >= 1
    /\ \E k \in 1..Len(visitOrder), j \in 1..Len(allResults) :
          /\ visitDepths[k] = maxDepth
          /\ allResults[j].sourcePage = <<visitOrder[k]>>
          /\ allResults[j].isWorking
          /\ Hostname(allResults[j].url) = Hostname(url)
          /\ allResults[j].url \notin visitedPages

\* C12: a push carries the depth of the pushing page plus one, the depths
\* on the queue never decrease from front to back, and a page is processed
\* once, at the smallest depth at which it was ever pushed.
C12_BreadthFirst ==
    /\ \A e \in enqLog :
          \E k \in 1..Len(visitOrder) :
              visitOrder[k] = e.from /\ e.depth = visitDepths[k] + 1
    /\ \A j, k \in 1..Len(pageQueue) :
          j < k => pageQueue[j].depth <= pageQueue[k].depth
    /\ \A j, k \in 1..Len(visitDepths) : j < k => visitDepths[j] <= visitDepths[k]
    /\ \A k \in 1..Len(visitOrder) :
          /\ visitOrder[k] = url => visitDepths[k] = 0
          /\ \A e \in enqLog : e.url = visitOrder[k] => visitDepths[k] <= e.depth
          /\ \A j \in 1..Len(visitOrder) : visitOrder[j] = visitOrder[k] => j = k

\* a finished crawl in which a page was pushed at depths 1 and 2 and was
\* processed at depth 1
C12_Witness ==
    /\ pc = "resolved"
    /\ \E e1, e2 \in enqLog, k \in 1..Len(visitOrder) :
          /\ e1.url = visitOrder[k]
          /\ e2.url = visitOrder[k]
          /\ e1.depth = 1
          /\ e2.depth = 2
          /\ visitDepths[k] = 1

\* every result produced so far: returned, collected by the running
\* checkLinksInBatches call, or held by a call of the running window
AllProduced ==
    Range(allResults) \cup Range(results) \cup {sl.result[1] : sl \in DoneSlots}

\* C13: the sourcePage of every result is a page that was taken from the
\* queue, marked visited and fetched with a body before the result existed.
C13_SourcePageProcessed ==
    /\ \A r \in AllProduced :
          /\ Present(r.sourcePage)
          /\ r.sourcePage[1] \in visitedPages
          /\ r.sourcePage[1] \in Range(visitOrder)
          /\ r.sourcePage[1] \in fetched
    /\ \A r \in Range(results) \cup {sl.result[1] : sl \in DoneSlots} :
          r.sourcePage = <<currentUrl>>

\* results of two source pages, next to a page that was visited but whose
\* fetch failed and that is the source of no result
C13_Witness ==
    /\ pc = "resolved"
    /\ \E j, k \in 1..Len(allResults) : allResults[j].sourcePage # allResults[k].sourcePage
    /\ \E p \in visitedPages :
          /\ p \notin fetched
          /\ \A k \in 1..Len(allResults) : allResults[k].sourcePage # <<p>>

\* C14 as stated: with recursive = FALSE no returned result carries a
\* sourcePage.
C14_SinglePageNoSource ==
    (~recursive /\ pc = "resolved") =>
        \A k \in 1..Len(allResults) : ~Present(allResults[k].sourcePage)

\* the place of the first occurrence of x in s, and the number of distinct
\* elements of s that occur first at or before that place
FirstAt(s, x) == CHOOSE j \in 1..Len(s) : s[j] = x /\ \A h \in 1..(j - 1) : s[h] # x
RankIn(s, x) == Cardinality({FirstAt(s, y) : y \in {z \in Range(s) : FirstAt(s, z) <= FirstAt(s, x)}})

\* C15: the links to check are the distinct extracted links, ordered by
\* their first occurrence in the document; all of them in recursive mode
\* and the first 25 of them in single-page mode.
C15_DistinctInOrder ==
    pc = "extracted" =>
        LET ext == extractLinks(site[url], url)
            out == linksToCheck
        IN  /\ \A j, k \in 1..Len(out) : j # k => out[j] # out[k]
            /\ \A k \in 1..Len(out) : out[k] \in Range(ext) /\ RankIn(ext, out[k]) = k
            /\ \A x \in Range(ext) :
                  (recursive \/ RankIn(ext, x) <= 25) => x \in Range(out)
            /\ ~recursive => Len(out) <= 25

\* a single-page extraction of a document of more than 25 distinct links,
\* some of them repeated
C15_Witness ==
    /\ pc = "extracted"
    /\ ~recursive
    /\ Cardinality(Range(extractLinks(site[url], url))) > 25
    /\ Len(extractLinks(site[url], url)) > Cardinality(Range(extractLinks(site[url], url)))
    /\ Len(linksToCheck) = 25

\* C18 as stated: no extracted link is a javascript: URL, and every
\* extracted link is the resolution of an anchor of the document that is
\* neither a fragment-only target nor a script pseudo-URL.
C18_NoScriptNoFragment ==
    pc = "extracted" =>
        \A l \in Range(linksToCheck) :
            /\ l.scheme # "javascript"
            /\ \E h \in Range(site[url]) :
                  h.kind \notin {"frag", "js"} /\ Resolve(h, url) = l

\* C16: no pair (sourcePage, url) occurs twice; every result is a link to
\* check of a fetched page; and the returned results hold every link to
\* check of every fetched page.
C16_OnePerPair ==
    /\ \A j, k \in 1..Len(allResults) :
          j # k => <<allResults[j].sourcePage, allResults[j].url>>
                       # <<allResults[k].sourcePage, allResults[k].url>>
    /\ \A k \in 1..Len(allResults) :
          \E p \in fetched :
              /\ allResults[k].sourcePage = <<p>>
              /\ allResults[k].url \in Range(LinksToCheck(site[p], p, recursive))
    /\ pc = "resolved" =>
          \A p \in fetched :
              \A l \in Range(LinksToCheck(site[p], p, recursive)) :
                  \E k \in 1..Len(allResults) :
                      allResults[k].sourcePage = <<p>> /\ allResults[k].url = l

\* a finished crawl that reports one link for two source pages
C16_Witness ==
    /\ pc = "resolved"
    /\ \E j, k \in 1..Len(allResults) :
          /\ allResults[j].url = allResults[k].url
          /\ allResults[j].sourcePage # allResults[k].sourcePage

\* C17: with a start URL that does not parse, checkLinks is either not yet
\* called or has rejected with the parse error; it never stands at a
\* request or in a callback, and no page, window or result exists.
C17_InvalidStartUrl ==
    ~Parses(url) =>
        /\ pc \in {"idle", "rejected"}
        /\ pc = "rejected" => outcome = "TypeError"
        /\ visitOrder = << >> /\ visitedPages = {} /\ pageQueue = << >>
        /\ proxyIdx = 0 /\ proxyUsed = ""
        /\ slots = << >> /\ results = << >> /\ allResults = << >>
        /\ checkedPagesCount = 0

\* the call with an unparseable start URL has rejected, without an abort
C17_Witness ==
    /\ ~Parses(url)
    /\ ~aborted
    /\ pc = "rejected"
    /\ outcome = "TypeError"

\* the calls of the running window that wait for a response
Waiting(sl) == {k \in 1..Len(sl) : InFlight(sl[k])}

\* C19: at most batchSize (3) calls wait for a response, all of them for
\* links of the current window, and a step that issues a request for a
\* window starts from a state in which no request is waiting.
C19_BoundedNoOverlap ==
    /\ [](/\ Cardinality(Waiting(slots)) <= 3
          /\ Len(slots) <= 3
          /\ \A k \in Waiting(slots) :
                i + k <= Len(linksToCheck) /\ slots[k].url = linksToCheck[i + k])
    /\ [][(\E k \in Waiting(slots') :
                \/ i' # i
                \/ currentUrl' # currentUrl
                \/ k > Len(slots)
                \/ slots[k].url # slots'[k].url)
              => Waiting(slots) = {}]_vars

\* the second window of a page is waiting for a response
C19_Witness ==
    /\ pc = "batch"
    /\ i = 3
    /\ Waiting(slots) # {}
    /\ Len(results) = 3

\* C20 as stated: a response is 200 with results, 400 with an error, or
\* 500 with an error, always as application/json; it is 400 whenever the
\* url parameter is missing or the fetch of the target page failed, by a
\* status or by the network, and 500 only after another failure.
C20_HandlerStatus ==
    response # << >> =>
        LET r == response[1]
        IN  /\ r.contentType = "application/json"
            /\ r.status \in {200, 400, 500}
            /\ r.status = 200 <=> failure = "none"
            /\ r.status = 200 <=> DOMAIN r.body = {"results"}
            /\ r.status # 200 <=> DOMAIN r.body = {"error"}
            /\ failure \in {"missing", "status", "network"} => r.status = 400
            /\ r.status = 500 => failure \notin {"none", "missing", "status", "network"}

\* a text with every pair of double quotes made one, and the number of
\* double quotes of a text
RECURSIVE Undouble(_)
Undouble(t) ==
    IF t = << >> THEN << >>
    ELSE IF Head(t) = Quote /\ Len(t) >= 2 /\ t[2] = Quote
    THEN <<Quote>> \o Undouble(Tail(Tail(t)))
    ELSE <<Head(t)>> \o Undouble(Tail(t))
QuoteCount(t) == Cardinality({k \in 1..Len(t) : t[k] = Quote})

\* C21: the error field of a row of the export is empty for a result
\* without error; otherwise it is a double quote, the error text with each
\* of its double quotes written twice, and a double quote.
C21_CsvErrorField ==
    csvRows # << >> =>
        /\ Len(csvRows) = Len(uiResults) + 1
        /\ \A k \in 1..Len(uiResults) :
              LET e == uiResults[k].error
                  f == csvRows[k + 1][4]
                  inner == SubSeq(f, 2, Len(f) - 1)
              IN  IF e = << >> THEN f = << >>
                  ELSE /\ Len(f) >= 2 /\ f[1] = Quote /\ f[Len(f)] = Quote
                       /\ Len(inner) = Len(e[1]) + QuoteCount(e[1])
                       /\ QuoteCount(inner) = 2 * QuoteCount(e[1])
                       /\ Undouble(inner) = e[1]
                       /\ e[1] = ExampleErr =>
                             f = <<Quote, "He said ", Quote, Quote, "hi", Quote, Quote,
                                   Quote>>

\* the export of a broken result whose error is He said "hi", next to a
\* result without error
C21_Witness ==
    /\ Len(csvRows) = 3
    /\ uiResults[1].error = << >>
    /\ uiResults[2].error = <<ExampleErr>>

\* C22: checkLinks rejects with an AbortError only when the signal was
\* aborted, and rejects at all only then or at the parse of the start URL;
\* while the signal is not aborted, a page fetch that timed out is followed
\* by the next proxy or the page-level error, a HEAD that timed out by the
\* GET of the same call, and a GET that timed out by a broken-link result.
C22_CancelOnlyOnAbort ==
    /\ [](outcome = "AbortError" => aborted)
    /\ [](pc = "rejected" => aborted \/ ~Parses(url))
    /\ [](\A sl \in SlotSet :
            (sl.get = "AbortError" /\ sl.stage = "done") =>
                /\ ~sl.result[1].isWorking
                /\ sl.result[1].error = <<"Request timeout">>)
    /\ [][(~aborted' /\ pc \in {"fetching", "reading"} /\ error' = "AbortError"
              /\ pc' # "reading")
             => (pc' = "proxy" /\ proxyIdx' = proxyIdx + 1)]_vars
    /\ [][(~aborted' /\ pc = "proxy" /\ proxyIdx > Len(corsProxies))
             => pc' = "cbPageErr"]_vars
    /\ [][(~aborted' /\ pc = "batch")
             => pc' \in {"batch", "cbProgress"}]_vars

\* the last proxy attempt of a page timed out without an abort, and the
\* page was counted as failed
C22_Witness ==
    /\ pc = "cbPageErr"
    /\ error = "AbortError"
    /\ ~aborted
    /\ proxyIdx = Len(corsProxies) + 1

\* C23: while the signal is aborted no request is in flight, and a step
\* that ends with the signal aborted issues no request: no proxy attempt,
\* no window, no HEAD and no GET.
C23_NoRequestAfterAbort ==
    /\ [](aborted => (pc \notin {"fetching", "reading", "batch"}
                        /\ Waiting(slots) = {}))
    /\ [][aborted' =>
             /\ ~(pc' = "fetching" /\ pc # "fetching")
             /\ \A k \in Waiting(slots') :
                   /\ k \in Waiting(slots)
                   /\ slots'[k].stage = slots[k].stage
                   /\ slots'[k].url = slots[k].url
                   /\ i' = i]_vars

\* the signal was aborted while a HEAD request and the GET request of
\* another call were in flight; both were aborted and checkLinks rejected
C23_Witness ==
    /\ pc = "rejected"
    /\ aborted
    /\ \E j, k \in 1..Len(slots) :
          /\ slots[j].stage = "rejected" /\ slots[j].get = "none"
          /\ slots[k].stage = "rejected" /\ slots[k].get = "AbortError"

\* C24: onProgress is not invoked in or after the step that aborts the
\* signal, so no result of a window that was still running when the signal
\* was aborted is delivered.
C24_NoProgressAfterAbort ==
    [][(pc' = "cbProgress" /\ (pc # "cbProgress" \/ i' # i))
          => (~aborted' /\ AllDone(slots'))]_vars

\* the signal was aborted when one call of the window had returned its
\* result and another was in flight; the result was never delivered
C24_Witness ==
    /\ pc = "rejected"
    /\ aborted
    /\ results = << >>
    /\ allResults = << >>
    /\ \E sl \in DoneSlots : sl.result[1].isWorking
    /\ \E sl \in SlotSet : sl.stage = "rejected"

PendingAttempts == {k \in 1..Len(attempts) : attempts[k].result = "pending"}
LastAttempt == attempts[Len(attempts)]

\* C25: pages are visited one after the other: while a link verification
\* waits for its response no page fetch is in flight, at most one proxy
\* attempt is in flight and it is the last one of the page at hand, and a
\* step that takes a page from the queue or issues a proxy attempt starts
\* from a state in which nothing is in flight.
C25_SequentialPages ==
    /\ [](/\ Waiting(slots) # {} => (pc = "batch" /\ PendingAttempts = {})
          /\ Cardinality(PendingAttempts) <= 1
          /\ PendingAttempts # {} =>
                (/\ pc \in {"fetching", "reading"}
                 /\ PendingAttempts = {Len(attempts)}
                 /\ slots = << >>))
    /\ [][(visitOrder' # visitOrder \/ Len(attempts') > Len(attempts))
            => (Waiting(slots) = {} /\ PendingAttempts = {})]_vars

\* the second proxy attempt of the second page is in flight; the links of
\* the first page have been verified
C25_Witness ==
    /\ pc = "fetching"
    /\ Len(visitOrder) = 2
    /\ Len(attempts) = 2
    /\ PendingAttempts = {2}
    /\ allResults # << >>

\* C26: the k-th proxy attempt of a page goes to the k-th proxy of the
\* list, every attempt before the last one of the page has failed (so
\* nothing follows a successful fetch), and the attempts of a page change
\* only by a new attempt, by the end of the last one, or by the next page.
C26_ProxiesInOrder ==
    /\ [](/\ Len(attempts) <= Len(corsProxies)
          /\ \A k \in 1..Len(attempts) :
                /\ attempts[k].proxy = corsProxies[k]
                /\ k < Len(attempts) => attempts[k].result = "failed")
    /\ [][attempts' # attempts =>
            \/ /\ visitOrder' # visitOrder
               /\ attempts' = << >>
            \/ /\ Len(attempts') = Len(attempts) + 1
               /\ SubSeq(attempts', 1, Len(attempts)) = attempts
            \/ /\ attempts # << >>
               /\ LastAttempt.result = "pending"
               /\ \E res \in {"failed", "ok", "aborted"} :
                     attempts' = Settle(attempts, res)]_vars

\* two proxies failed for the page and the third delivered it
C26_Witness ==
    /\ Len(attempts) = 3
    /\ attempts[1].result = "failed"
    /\ attempts[2].result = "failed"
    /\ attempts[3].result = "ok"
    /\ pc = "batch"

\* C27: every link verification of a page goes through the proxy whose
\* fetch delivered that page: while links of a page are being verified,
\* proxyUsed is the proxy of the page's last attempt, that attempt
\* succeeded, and every call of the window holds that proxy; proxyUsed is
\* assigned only when a body has been read.
C27_SamePageProxy ==
    /\ []((pc \in {"batch", "cbProgress"} \/ Waiting(slots) # {}) =>
            /\ attempts # << >>
            /\ LastAttempt.result = "ok"
            /\ proxyUsed = LastAttempt.proxy
            /\ proxyUsed # ""
            /\ \A k \in 1..Len(slots) : slots[k].proxy = LastAttempt.proxy)
    /\ [][proxyUsed' # proxyUsed => (pc = "reading" /\ pc' # "reading")]_vars

\* links of the first page were verified through the proxy that delivered
\* it; the first proxy then failed for the second page, the second proxy
\* delivered it, and links of the second page are being verified
C27_Witness ==
    /\ pc = "batch"
    /\ Len(visitOrder) = 2
    /\ allResults # << >>
    /\ Len(attempts) = 2
    /\ proxyUsed = corsProxies[2]
    /\ Waiting(slots) # {}
    /\ \E k \in 1..Len(allResults) : allResults[k].sourcePage = <<visitOrder[1]>>

PathExcluded(u) == Lower(u.ext) \in ExcludedExts
DepthOf(p) == visitDepths[FirstAt(visitOrder, p)]

\* C28 as stated: no URL whose path ends in an excluded extension is ever
\* enqueued, whatever follows the path; such a link of a fetched page is
\* still in the returned results; and in a finished recursive crawl every
\* working same-host link whose path has no excluded extension, found on a
\* page above the depth limit, was enqueued from that page.
C28_ExcludedByPath ==
    /\ \A e \in enqLog : ~PathExcluded(e.url)
    /\ (pc = "resolved" /\ Parses(url)) =>
          /\ \A p \in fetched :
                \A l \in Range(LinksToCheck(site[p], p, recursive)) :
                    PathExcluded(l) =>
                        \E k \in 1..Len(allResults) :
                            /\ allResults[k].url = l
                            /\ allResults[k].sourcePage = <<p>>
          /\ recursive =>
                \A k \in 1..Len(allResults) :
                    LET r == allResults[k]
                    IN  (/\ r.isWorking
                         /\ Parses(r.url)
                         /\ Hostname(r.url) = Hostname(url)
                         /\ ~PathExcluded(r.url)
                         /\ DepthOf(r.sourcePage[1]) < maxDepth)
                        => \E e \in enqLog :
                              e.url = r.url /\ e.from = r.sourcePage[1]

InPageChecked == {"cbPageEmpty", "cbPageErr", "cbPageDone"}
InPage == {"proxy", "fetching", "reading", "batch", "cbProgress"}

\* C29: the counter changes only by one, in the step that ends the
\* processing of a page (links verified, no links, or no proxy delivered
\* the page) and enters onPageChecked, and every such step changes it; so
\* onPageChecked receives 1, 2, 3, ..., the number of pages taken from the
\* queue so far; at the head of the queue loop and in a crawl that
\* resolved the counter is the size of the visited set.
C29_CountedOnce ==
    /\ [](/\ pc \in {"loop", "resolved"} \cup InPageChecked =>
                /\ checkedPagesCount = Cardinality(visitedPages)
                /\ checkedPagesCount = Len(visitOrder)
          /\ pc \in InPage => checkedPagesCount = Len(visitOrder) - 1)
    /\ [][checkedPagesCount' # checkedPagesCount =>
            /\ checkedPagesCount' = checkedPagesCount + 1
            /\ pc \in InPage
            /\ pc' \in InPageChecked]_vars
    /\ [][(pc \notin InPageChecked /\ pc' \in InPageChecked) =>
            checkedPagesCount' = checkedPagesCount + 1]_vars

\* a crawl of three pages resolved: the links of one were verified, and
\* no proxy delivered another
C29_Witness ==
    /\ pc = "resolved"
    /\ checkedPagesCount = 3
    /\ Len(visitOrder) = 3
    /\ \E p \in Range(visitOrder) : p \notin fetched
    /\ \E k \in 1..Len(allResults) : allResults[k].sourcePage = <<visitOrder[2]>>

\* C30: a step of the queue loop whose front entry names a visited page
\* removes that entry and nothing else: the loop stays at its head, no
\* request is issued, no callback is entered, and the visited set, the
\* results, the counter and the rest of the queue are as before.
C30_SkipNoEffect ==
    [][(/\ pc = "loop"
        /\ pageQueue # << >>
        /\ ~aborted
        /\ Head(pageQueue).url \in visitedPages)
          => /\ pageQueue' = Tail(pageQueue)
             /\ pc' = "loop"
             /\ UNCHANGED <<visitedPages, allResults, checkedPagesCount, outcome,
                            aborted, proxyUsed, pageVars, batchVars, histVars,
                            uiVars, inputVars>>]_vars

\* a crawl resolved after more entries were pushed on the queue than pages
\* were visited: the other entries were skipped, one of them the start page
C30_Witness ==
    /\ pc = "resolved"
    /\ ~aborted
    /\ pageQueue = << >>
    /\ 1 + Cardinality(enqLog) > Len(visitOrder)
    /\ \E e \in enqLog : e.url = url
    /\ Cardinality(visitedPages) = Len(visitOrder)

EntersProgress == pc' = "cbProgress" /\ (pc # "cbProgress" \/ i' # i)

\* C31: onProgress is entered once for each window whose calls all
\* returned, with the results of the links of that window in input order;
\* what it has been handed changes in no other step; and when checkLinks
\* resolves, the payloads put one after the other are the returned list.
C31_ProgressIsResult ==
    /\ [][EntersProgress =>
            /\ AllDone(slots')
            /\ Len(slots') = Min(batchSize, Len(linksToCheck') - i')
            /\ Len(uiResults') = Len(uiResults) + Len(slots')
            /\ SubSeq(uiResults', 1, Len(uiResults)) = uiResults
            /\ \A k \in 1..Len(slots') :
                  /\ uiResults'[Len(uiResults) + k] = slots'[k].result[1]
                  /\ uiResults'[Len(uiResults) + k].url = linksToCheck'[i' + k]]_vars
    /\ [][uiResults' # uiResults => EntersProgress]_vars
    /\ [][(pc = "batch" /\ AllDone(slots') /\ ~aborted') => EntersProgress]_vars
    /\ []((pc = "resolved" /\ Parses(url)) => uiResults = allResults)
    /\ [](pc \in {"loop", "proxy", "fetching", "reading"} => uiResults = allResults)

\* a crawl resolved whose page had links for two windows, a broken one
\* among them
C31_Witness ==
    /\ pc = "resolved"
    /\ uiResults = allResults
    /\ Len(allResults) > batchSize
    /\ \E k \in 1..Len(uiResults) : ~uiResults[k].isWorking

\* C32: in single-page mode nothing is pushed on the queue besides the
\* start URL, no page but the start page is taken from it or requested
\* through a proxy, and every result names the start page as its source,
\* whatever the depth limit.
C32_SinglePageOnly ==
    ~recursive =>
        /\ enqLog = {}
        /\ \A k \in 1..Len(pageQueue) : pageQueue[k] = [url |-> url, depth |-> 0]
        /\ Len(visitOrder) <= 1
        /\ visitedPages \subseteq {url}
        /\ fetched \subseteq {url}
        /\ currentUrl \in {NoUrl, url}
        /\ checkedPagesCount <= 1
        /\ \A k \in 1..Len(allResults) : allResults[k].sourcePage = <<url>>

\* a single-page check with the largest depth limit resolved after it
\* found a working link to a page of its own host
C32_Witness ==
    /\ ~recursive
    /\ maxDepth = MaxDepthBound
    /\ pc = "resolved"
    /\ visitOrder = <<url>>
    /\ \E k \in 1..Len(allResults) : ShouldEnqueue(allResults[k])

\* C33 as stated: the list that extractLinks returns without DOMParser is
\* the list it returns with DOMParser, for every document.
C33_FallbackSame ==
    pc = "fallback" => linksToCheck = extractLinks(site[url], url)

\* C34 as stated: for a response with an ok status, a body that is not
\* JSON or that has no array as results ends the call in a rejection whose
\* error is not the one thrown for a status that is not ok; and the call
\* resolves with an array only.
C34_ProtocolError ==
    /\ (apiCall.pc \in {"resolved", "rejected"} /\ apiReply.kind = "response"
            /\ Ok(apiReply.status)
            /\ (apiReply.body.type # "object" \/ apiReply.body.results.type # "array"))
          => (apiCall.pc = "rejected" /\ apiCall.err # "Error: status")
    /\ apiCall.pc = "resolved" => apiCall.value.type = "array"

\* C35 as stated: onPageChecked is entered from the page-level error
\* handling only when each proxy of the list was tried for the page and
\* failed; a page whose last attempt delivered its body, empty or not, ends
\* as a page without links or as a page whose links were verified.
C35_ErrorOnlyWhenAllFailed ==
    /\ pc = "cbPageErr" =>
          /\ Len(attempts) = Len(corsProxies)
          /\ \A k \in 1..Len(attempts) : attempts[k].result = "failed"
    /\ (pc \in InPageChecked /\ attempts # << >> /\ LastAttempt.result = "ok")
          => pc \in {"cbPageEmpty", "cbPageDone"}

Settles(k) == Pending(k) /\ checks'[k].state # "pending"

\* C36 as stated: while a call of checkLinks is pending and its signal is
\* not aborted, isChecking is true and abortControllerRef holds the
\* controller of that call; a submission aborts the signal of every call
\* that is pending; and a step in which a call settles while a later call is
\* pending changes neither isChecking nor abortControllerRef nor the error.
C36_RefHoldsPendingCheck ==
    /\ [](\A k \in 1..Len(checks) :
            (Pending(k) /\ ~checks[k].aborted) =>
                (isChecking /\ abortControllerRef = k))
    /\ [][Len(checks') > Len(checks) =>
            \A k \in 1..Len(checks) : Pending(k) => checks'[k].aborted]_vars
    /\ [][\A k \in 1..Len(checks) :
            (Settles(k) /\ \E j \in (k + 1)..Len(checks) : Pending(j)) =>
                UNCHANGED <<isChecking, abortControllerRef, uiError, hasChecked>>]_vars

====
